---- MODULE Spec2Model ----
(***************************************************************************)
(* Model of the vtoken-mint pallet (brml/vtoken-mint/src/lib.rs): the BNC  *)
(* emission pool, the price halving and issuance trigger of on_finalize,   *)
(* the flat (issue_bnc) and weighted (issue_bnc_by_weight) distribution    *)
(* rounds, the mint recorders and the weight adjuster.                     *)
(***************************************************************************)
EXTENDS Integers, Sequences, FiniteSets, TLC

(***************************************************************************)
(* Types and configuration                                                 *)
(***************************************************************************)

\* BalanceOf<T> is an unsigned integer type with saturating arithmetic
\* (u64/u128 in a runtime).  The model keeps the type's shape at a width of
\* 9 bits so that the saturating branches of the code are reachable.
BalanceMax == 511

\* Config::PriceHalfBlockInterval, MaxIssueBlockInterval, MaxTxAmount and
\* PledgeBaseAmount (Get<u32>), instantiated small.
PriceHalfBlockInterval == 2
MaxIssueBlockInterval == 3
MaxTxAmount == 2
PledgeBaseAmount == 1

\* u32::MAX of the transaction counter, at a width of 2 bits
U32Max == 3

\* Bounds of the exploration of the whole pallet (Spec): the last block
\* finalized, the mints recorded, the adjust score a raise may start from,
\* and the rounds that end in DepositBncFailure.
MaxBlock == 2
MaxMints == 2
MaxAdjust == 1
MaxFailures == 1
\* Bounds of the specifications of one distribution model (SpecFlat,
\* SpecWeighted) and of the block sequence (SpecChain).
RoundBlocks == 2
RoundMints == 3
WeightedBlocks == 1
ChainBlocks == 5
ChainMints == 2
\* Bounds of the specification with fair finalization (SpecLive): the last
\* block finalized and the mints recorded
LiveBlocks == 6
LiveMints == 2
\* Bounds of the specification of the monitor (SpecMonitor)
MonitorBlocks == 1
MonitorMints == 4

\* Accounts and assets.  Storage maps iterate in the order of the hash of
\* the key (blake2_128_concat), which is the same for BncMint and for the
\* second key of VtokenWeightMint; the model names the accounts and the
\* assets by their position in that order.
IterAccounts == <<"a1", "a2">>
IterAssets == <<"x1", "x2">>
Account == {IterAccounts[i] : i \in 1..Len(IterAccounts)}
Asset == {IterAssets[i] : i \in 1..Len(IterAssets)}

\* Inputs of the operations in Spec
GenesisPrices == {4}
MintAmounts == {0, 1}
Scores == {0, 1}
Pledges == {1, 3}
\* Inputs in SpecFlat, SpecWeighted and SpecChain
FlatPrices == {7, 100}
FlatAmounts == {0, 1, 2, 300}
WeightedPrices == {40}
WeightedAmounts == {1, 2, 300}
WeightedScores == {1, 3}
ChainPrices == {1, 3}
\* Inputs in SpecPledge: base scores and pledge amounts, whose deltas
\* floor(log2(pledge - PledgeBaseAmount)) are 0, 1, 3 and 8
\* Inputs in SpecPool: a genesis price of 0 and one that saturates BncSum
\* at the second block
PoolPrices == {0, 400}
\* Input in SpecLive: a genesis price that stays above 0 for eight blocks
LivePrices == {8}
\* Inputs in SpecMonitor
MonitorAmounts == {1, 2}
PledgeScores == {0, 2}
PledgeAmounts == {1, 2, 3, 9, 511}

VARIABLES
    BncSum,             \* EmissionPool
    BncPrice,           \* PricePoint: <<block, price>>
    BncMonitor,         \* IssuanceMonitor: <<<<block, amount>>, max, tx>>
    BncMint,            \* FlatMintCredit: account -> credit
    VtokenWeightScore,  \* AssetWeight: asset -> <<base, adjust>>
    VtokenWeightMint,   \* WeightedMintCredit: <<asset, account>> -> credit
    FreeBalance,        \* the currency service: existing account -> balance
    now,                \* the number of the last finalized block
    accrued,            \* history: total emission added to BncSum
    failures,           \* history: rounds that ended in DepositBncFailure
    mints,              \* history: mints recorded
    recorded,           \* history: <<largest amount, number>> of the mints
                        \* recorded since the last round that succeeded
    ev                  \* history: the last operation, its outcome, the
                        \* outcome of the round it ran and its deposits

vars == <<BncSum, BncPrice, BncMonitor, BncMint, VtokenWeightScore,
          VtokenWeightMint, FreeBalance, now, accrued, failures, mints,
          recorded, ev>>

(***************************************************************************)
(* Arithmetic of the Balance type                                          *)
(***************************************************************************)

Min(a, b) == IF a < b THEN a ELSE b

saturating_add(a, b) == Min(a + b, BalanceMax)

saturating_sub(a, b) == IF a > b THEN a - b ELSE 0

saturating_mul(a, b) == Min(a * b, BalanceMax)

\* Fix::from_num(x).checked_int_log2(): None (here -1) for 0, else floor(log2 x)
RECURSIVE checked_int_log2(_)
checked_int_log2(x) == IF x = 0 THEN -1 ELSE IF x = 1 THEN 0 ELSE 1 + checked_int_log2(x \div 2)

(***************************************************************************)
(* Storage as a record, so that operations compose                         *)
(***************************************************************************)

Store ==
    [BncSum |-> BncSum, BncPrice |-> BncPrice, BncMonitor |-> BncMonitor,
     BncMint |-> BncMint, VtokenWeightScore |-> VtokenWeightScore,
     VtokenWeightMint |-> VtokenWeightMint, FreeBalance |-> FreeBalance]

EmptyMap == [k \in {} |-> 0]

ZeroMonitor == <<<<0, 0>>, 0, 0>>

\* map.insert(k, v) / the write-back of map.mutate(k, ..)
Put(m, k, v) == [x \in DOMAIN m \cup {k} |-> IF x = k THEN v ELSE m[x]]

\* Sum of a sequence of balances with saturating_add (a fold from zero)
RECURSIVE FoldSat(_)
FoldSat(q) == IF q = <<>> THEN 0 ELSE saturating_add(q[1], FoldSat(Tail(q)))

\* The keys of a map in iteration order
Minters(m) == SelectSeq(IterAccounts, LAMBDA a : a \in DOMAIN m)

AssetsOf(m) == SelectSeq(IterAssets, LAMBDA x : x \in DOMAIN m)

\* VtokenWeightMint::iter_prefix(asset): the accounts holding a credit under it
PrefixMinters(wm, x) == SelectSeq(IterAccounts, LAMBDA a : <<x, a>> \in DOMAIN wm)

(***************************************************************************)
(* Currency service                                                        *)
(***************************************************************************)

\* T::Currency::deposit_into_existing(who, value).is_ok(): the account
\* exists and the whole value fits its balance
DepositOk(free, who, value) ==
    who \in DOMAIN free /\ free[who] + value <= BalanceMax

\* Mutant: a failing deposit is passed over and the loop goes on to the
\* minters after it
RECURSIVE PayAll_KeepGoing(_, _, _)
PayAll_KeepGoing(todo, free, pays) ==
    IF todo = <<>> THEN [ok |-> TRUE, free |-> free, pays |-> pays]
    ELSE LET who == todo[1][1]
             reward == todo[1][2]
         IN  IF reward = 0 THEN PayAll_KeepGoing(Tail(todo), free, pays)
             ELSE IF DepositOk(free, who, reward)
                  THEN PayAll_KeepGoing(Tail(todo),
                                        [free EXCEPT ![who] = @ + reward],
                                        Append(pays, <<who, reward>>))
                  ELSE [PayAll_KeepGoing(Tail(todo), free, pays) EXCEPT !.ok = FALSE]

\* The payout loop of a round: todo is the sequence of <<minter, reward>> in
\* iteration order.  Zero rewards are skipped; the first failing deposit
\* ends the loop (ensure!), the deposits made before it stay.
RECURSIVE PayAll(_, _, _)
PayAll(todo, free, pays) ==
    IF todo = <<>> THEN [ok |-> TRUE, free |-> free, pays |-> pays]
    ELSE LET who == todo[1][1]
             reward == todo[1][2]
         IN  IF reward = 0 THEN PayAll(Tail(todo), free, pays)
             ELSE IF DepositOk(free, who, reward)
                  THEN PayAll(Tail(todo),
                              [free EXCEPT ![who] = @ + reward],
                              Append(pays, <<who, reward>>))
                  ELSE [ok |-> FALSE, free |-> free, pays |-> pays]

(***************************************************************************)
(* The operations of the pallet, as functions of the storage               *)
(***************************************************************************)

Result(res, s, pays) == [res |-> res, s |-> s, pays |-> pays]

\* Mutant: the accrual is not saturating, it wraps at the width of Balance
count_bnc_Wrapping(s, generate_amount) ==
    [s EXCEPT !.BncSum = (@ + generate_amount) % (BalanceMax + 1)]

\* fn count_bnc(generate_amount)
count_bnc(s, generate_amount) ==
    [s EXCEPT !.BncSum = saturating_add(@, generate_amount)]

\* Mutant: a mint is counted only when it raises the largest single mint
RecordMint_CountRaises(monitor, mint_amount) ==
    IF mint_amount > monitor[2]
    THEN <<monitor[1], mint_amount, Min(monitor[3] + 1, U32Max)>>
    ELSE monitor

\* The monitor update shared by both mint recorders: raise the largest
\* single mint, then count the transaction
RecordMint(monitor, mint_amount) ==
    <<monitor[1],
      IF mint_amount > monitor[2] THEN mint_amount ELSE monitor[2],
      Min(monitor[3] + 1, U32Max)>>

\* fn mint_bnc(minter, mint_amount)
mint_bnc(s, minter, mint_amount) ==
    LET credit == IF minter \in DOMAIN s.BncMint
                  THEN saturating_add(s.BncMint[minter], mint_amount)
                  ELSE mint_amount
    IN  Result("Ok",
               [s EXCEPT !.BncMint = Put(@, minter, credit),
                         !.BncMonitor = RecordMint(@, mint_amount)],
               <<>>)

\* The reward of one minter in the flat round
FlatReward(point, bnc_amount, sum) == saturating_mul(point, bnc_amount) \div sum

\* The <<minter, reward>> pairs of the flat round in iteration order
FlatTodo(s) ==
    LET order == Minters(s.BncMint)
        sum == FoldSat([i \in 1..Len(order) |-> s.BncMint[order[i]]])
    IN  [i \in 1..Len(order) |->
            <<order[i], FlatReward(s.BncMint[order[i]], s.BncSum, sum)>>]

\* Mutant: the flat round clears the credits of both models
ResetFlat_ClearBoth(s) ==
    [s EXCEPT !.BncSum = 0, !.BncMint = EmptyMap, !.VtokenWeightMint = EmptyMap,
              !.BncMonitor = ZeroMonitor]

\* The end of a flat round: reset BncSum, clear BncMint and the monitor
ResetFlat(s) ==
    [s EXCEPT !.BncSum = 0, !.BncMint = EmptyMap, !.BncMonitor = ZeroMonitor]

\* fn issue_bnc()
issue_bnc(s) ==
    IF s.BncSum = 0 THEN Result("BncAmountNotExist", s, <<>>)
    ELSE
    LET order == Minters(s.BncMint)
        sum == FoldSat([i \in 1..Len(order) |-> s.BncMint[order[i]]])
    IN  IF sum = 0 THEN Result("MinterNotExist", s, <<>>)
        ELSE
        LET paid == PayAll(FlatTodo(s), s.FreeBalance, <<>>)
        IN  IF ~paid.ok
            THEN Result("DepositBncFailure",
                        [s EXCEPT !.FreeBalance = paid.free], paid.pays)
            ELSE Result("Ok", ResetFlat([s EXCEPT !.FreeBalance = paid.free]), paid.pays)

\* fn v_token_score_exists(asset_id)
v_token_score_exists(s, asset_id) == asset_id \in DOMAIN s.VtokenWeightScore

\* fn init_v_token_score(asset_id, score)
init_v_token_score(s, asset_id, score) ==
    Result("Ok", [s EXCEPT !.VtokenWeightScore = Put(@, asset_id, <<score, 0>>)], <<>>)

\* fn mint_bnc_by_weight(minter, mint_amount, asset_id)
mint_bnc_by_weight(s, minter, mint_amount, asset_id) ==
    IF ~v_token_score_exists(s, asset_id) THEN Result("AssetScoreNotExist", s, <<>>)
    ELSE
    LET key == <<asset_id, minter>>
        credit == IF key \in DOMAIN s.VtokenWeightMint
                  THEN saturating_add(s.VtokenWeightMint[key], mint_amount)
                  ELSE mint_amount
    IN  Result("Ok",
               [s EXCEPT !.VtokenWeightMint = Put(@, key, credit),
                         !.BncMonitor = RecordMint(@, mint_amount)],
               <<>>)

\* The weight of one asset, base_score + adjust_score
Weight(score) == saturating_add(score[1], score[2])

\* total_score of the weighted round
TotalScore(scores) ==
    LET order == AssetsOf(scores)
    IN  FoldSat([i \in 1..Len(order) |-> Weight(scores[order[i]])])

\* v_token_reward: the share of one asset
VTokenReward(score, bnc_amount, total_score) ==
    saturating_mul(Weight(score), bnc_amount) \div total_score

\* v_token_point: the total credit under one asset
VTokenPoint(wm, asset_id) ==
    LET order == PrefixMinters(wm, asset_id)
    IN  FoldSat([i \in 1..Len(order) |-> wm[<<asset_id, order[i]>>]])

\* minter_reward of the weighted round
MinterReward(point, v_token_reward, v_token_point) ==
    saturating_mul(point, v_token_reward) \div v_token_point

\* The <<minter, reward>> pairs of the weighted round in iteration order:
\* assets in order, an asset without credit skipped, then its minters
RECURSIVE WeightedTodo(_, _, _, _)
WeightedTodo(assets, s, bnc_amount, total_score) ==
    IF assets = <<>> THEN <<>>
    ELSE
    LET asset_id == assets[1]
        v_token_reward == VTokenReward(s.VtokenWeightScore[asset_id], bnc_amount, total_score)
        v_token_point == VTokenPoint(s.VtokenWeightMint, asset_id)
        order == PrefixMinters(s.VtokenWeightMint, asset_id)
        mine == IF v_token_point = 0 THEN <<>>
                ELSE [i \in 1..Len(order) |->
                        <<order[i],
                          MinterReward(s.VtokenWeightMint[<<asset_id, order[i]>>],
                                       v_token_reward, v_token_point)>>]
    IN  mine \o WeightedTodo(Tail(assets), s, bnc_amount, total_score)

\* The division by total_score in the first iteration of the asset loop
\* panics when total_score is zero
DividesByZero(s) == AssetsOf(s.VtokenWeightScore) # <<>> /\ TotalScore(s.VtokenWeightScore) = 0

\* Mutant: the weighted round forgets to clear the monitor
ResetWeighted_KeepMonitor(s) ==
    [s EXCEPT !.BncSum = 0, !.VtokenWeightMint = EmptyMap]

\* The end of a weighted round: reset BncSum, clear VtokenWeightMint and
\* the monitor
ResetWeighted(s) ==
    [s EXCEPT !.BncSum = 0, !.VtokenWeightMint = EmptyMap, !.BncMonitor = ZeroMonitor]

\* fn issue_bnc_by_weight()
issue_bnc_by_weight(s) ==
    IF s.BncSum = 0 THEN Result("BncAmountNotExist", s, <<>>)
    ELSE IF DividesByZero(s) THEN Result("Panic", s, <<>>)
    ELSE
    LET total_score == TotalScore(s.VtokenWeightScore)
        todo == WeightedTodo(AssetsOf(s.VtokenWeightScore), s, s.BncSum, total_score)
        paid == PayAll(todo, s.FreeBalance, <<>>)
    IN  IF ~paid.ok
        THEN Result("DepositBncFailure",
                    [s EXCEPT !.FreeBalance = paid.free], paid.pays)
        ELSE Result("Ok", ResetWeighted([s EXCEPT !.FreeBalance = paid.free]), paid.pays)

\* VtokenWeightScore::get(asset_id): the default (0, 0) for a missing key
ScoreOf(s, asset_id) ==
    IF asset_id \in DOMAIN s.VtokenWeightScore THEN s.VtokenWeightScore[asset_id] ELSE <<0, 0>>

\* Mutant: a pledge equal to the base amount passes the check
PledgeEnough_OrEqual(pledge_amount) == pledge_amount >= PledgeBaseAmount

\* ensure!(pledge_amount.gt(&base_amount), ..)
PledgeEnough(pledge_amount) == pledge_amount > PledgeBaseAmount

\* Mutant: a raise on an asset without an entry is refused
improve_v_token_weight_NeedsEntry(s, asset_id, pledge_amount) ==
    IF ~PledgeEnough(pledge_amount) THEN Result("PledgeAmountNotEnough", s, <<>>)
    ELSE IF ~v_token_score_exists(s, asset_id) THEN Result("AssetScoreNotExist", s, <<>>)
    ELSE
    LET x == checked_int_log2(saturating_sub(pledge_amount, PledgeBaseAmount))
        old == ScoreOf(s, asset_id)
        new == IF x >= 0 THEN <<old[1], saturating_add(old[2], x)>> ELSE old
    IN  Result("Ok", [s EXCEPT !.VtokenWeightScore = Put(@, asset_id, new)], <<>>)

\* fn improve_v_token_weight(asset_id, pledge_amount)
improve_v_token_weight(s, asset_id, pledge_amount) ==
    IF ~PledgeEnough(pledge_amount) THEN Result("PledgeAmountNotEnough", s, <<>>)
    ELSE
    LET x == checked_int_log2(saturating_sub(pledge_amount, PledgeBaseAmount))
        old == ScoreOf(s, asset_id)
        new == IF x >= 0 THEN <<old[1], saturating_add(old[2], x)>> ELSE old
    IN  Result("Ok", [s EXCEPT !.VtokenWeightScore = Put(@, asset_id, new)], <<>>)

\* Mutant: the withdrawal takes one more than the delta of the pledge
withdraw_v_token_pledge_OneMore(s, asset_id, pledge_amount) ==
    IF ~PledgeEnough(pledge_amount) THEN Result("PledgeAmountNotEnough", s, <<>>)
    ELSE
    LET x == checked_int_log2(saturating_sub(pledge_amount, PledgeBaseAmount))
        old == ScoreOf(s, asset_id)
        new == IF x >= 0 THEN <<old[1], saturating_sub(old[2], x + 1)>> ELSE old
    IN  Result("Ok", [s EXCEPT !.VtokenWeightScore = Put(@, asset_id, new)], <<>>)

\* fn withdraw_v_token_pledge(asset_id, pledge_amount)
withdraw_v_token_pledge(s, asset_id, pledge_amount) ==
    IF ~PledgeEnough(pledge_amount) THEN Result("PledgeAmountNotEnough", s, <<>>)
    ELSE
    LET x == checked_int_log2(saturating_sub(pledge_amount, PledgeBaseAmount))
        old == ScoreOf(s, asset_id)
        new == IF x >= 0 THEN <<old[1], saturating_sub(old[2], x)>> ELSE old
    IN  Result("Ok", [s EXCEPT !.VtokenWeightScore = Put(@, asset_id, new)], <<>>)

\* Mutant: the halving does not record the block it happened at
HalvePrice_KeepBlock(price_point, current_block_number) ==
    IF saturating_sub(current_block_number, price_point[1]) = PriceHalfBlockInterval
    THEN <<price_point[1], price_point[2] \div 2>>
    ELSE price_point

\* The halving step of on_finalize: the price point after it
HalvePrice(price_point, current_block_number) ==
    IF saturating_sub(current_block_number, price_point[1]) = PriceHalfBlockInterval
    THEN <<current_block_number, price_point[2] \div 2>>
    ELSE price_point

\* Mutant: the transaction count only counts when the interval has elapsed
IssueCondition_IntervalFirst(s, current_block_number) ==
    /\ saturating_sub(current_block_number, s.BncMonitor[1][1]) = MaxIssueBlockInterval
    /\ \/ s.BncSum # 0 /\ s.BncMonitor[2] # 0
       \/ s.BncMonitor[3] >= MaxTxAmount

\* The issue condition of on_finalize, on the storage after count_bnc
IssueCondition(s, current_block_number) ==
    \/ /\ saturating_sub(current_block_number, s.BncMonitor[1][1]) = MaxIssueBlockInterval
       /\ s.BncSum # 0
       /\ s.BncMonitor[2] # 0
    \/ s.BncMonitor[3] >= MaxTxAmount

\* Mutant: the closing update also runs when the largest mint equals the
\* recorded amount
UpdateMonitor_OrEqual(s, monitor, current_block_number) ==
    IF monitor[2] >= monitor[1][2]
    THEN [s EXCEPT !.BncMonitor = <<<<current_block_number, monitor[2]>>, @[2], @[3]>>]
    ELSE s

\* The closing update of on_finalize: block number and max_bnc_mint_amount
UpdateMonitor(s, monitor, current_block_number) ==
    IF monitor[2] > monitor[1][2]
    THEN [s EXCEPT !.BncMonitor = <<<<current_block_number, monitor[2]>>, @[2], @[3]>>]
    ELSE s

\* Mutant: on_finalize does not stop at a stored price of 0
on_finalize_NoHalt(s, current_block_number) ==
    LET s1 == [s EXCEPT !.BncPrice = HalvePrice(@, current_block_number)]
        s2 == count_bnc(s1, s1.BncPrice[2])
        monitor == s2.BncMonitor
    IN  IF IssueCondition(s2, current_block_number)
        THEN LET r == issue_bnc_by_weight(s2)
             IN  CASE r.res = "Ok" ->
                        [res |-> "Ok", s |-> r.s, pays |-> r.pays, round |-> "Ok"]
                   [] r.res = "Panic" ->
                        [res |-> "Panic", s |-> r.s, pays |-> r.pays, round |-> "Panic"]
                   [] OTHER ->
                        [res |-> "Ok", s |-> UpdateMonitor(r.s, monitor, current_block_number),
                         pays |-> r.pays, round |-> r.res]
        ELSE [res |-> "Ok", s |-> UpdateMonitor(s2, monitor, current_block_number),
              pays |-> <<>>, round |-> "None"]

\* fn on_finalize(current_block_number).  round is the outcome of the
\* distribution round it invoked, "None" when it invoked none.
on_finalize(s, current_block_number) ==
    IF s.BncPrice[2] = 0
    THEN [res |-> "Ok", s |-> s, pays |-> <<>>, round |-> "None"]
    ELSE
    LET s1 == [s EXCEPT !.BncPrice = HalvePrice(@, current_block_number)]
        s2 == count_bnc(s1, s1.BncPrice[2])
        monitor == s2.BncMonitor
    IN  IF IssueCondition(s2, current_block_number)
        THEN LET r == issue_bnc_by_weight(s2)
             IN  CASE r.res = "Ok" ->
                        [res |-> "Ok", s |-> r.s, pays |-> r.pays, round |-> "Ok"]
                   [] r.res = "Panic" ->
                        [res |-> "Panic", s |-> r.s, pays |-> r.pays, round |-> "Panic"]
                   [] OTHER ->
                        [res |-> "Ok", s |-> UpdateMonitor(r.s, monitor, current_block_number),
                         pays |-> r.pays, round |-> r.res]
        ELSE [res |-> "Ok", s |-> UpdateMonitor(s2, monitor, current_block_number),
              pays |-> <<>>, round |-> "None"]

(***************************************************************************)
(* The state machine                                                       *)
(***************************************************************************)

Event(op, r, round) == [op |-> op, res |-> r.res, round |-> round, pays |-> r.pays]

\* The storage after an operation
Commit(s) ==
    /\ BncSum' = s.BncSum
    /\ BncPrice' = s.BncPrice
    /\ BncMonitor' = s.BncMonitor
    /\ BncMint' = s.BncMint
    /\ VtokenWeightScore' = s.VtokenWeightScore
    /\ VtokenWeightMint' = s.VtokenWeightMint
    /\ FreeBalance' = s.FreeBalance

\* A panic ends the execution
Running == ev.res # "Panic"

Genesis(prices) ==
    /\ BncSum = 0
    /\ \E p \in prices : BncPrice = <<0, p>>
    /\ BncMonitor = ZeroMonitor
    /\ BncMint = EmptyMap
    /\ VtokenWeightScore = EmptyMap
    /\ VtokenWeightMint = EmptyMap
    /\ FreeBalance = EmptyMap
    /\ now = 0
    /\ accrued = 0
    /\ failures = 0
    /\ mints = 0
    /\ recorded = <<0, 0>>
    /\ ev = [op |-> "genesis", res |-> "Ok", round |-> "None", pays |-> <<>>]

Init == Genesis(GenesisPrices)

\* The emission on_finalize adds to BncSum
Accrual(s, n) ==
    IF s.BncPrice[2] = 0 THEN 0
    ELSE count_bnc(s, HalvePrice(s.BncPrice, n)[2]).BncSum - s.BncSum

\* The host finalizes the next block
Finalize(maxBlock) ==
    /\ Running
    /\ now < maxBlock
    /\ LET r == on_finalize(Store, now + 1)
       IN  /\ Commit(r.s)
           /\ now' = now + 1
           /\ accrued' = accrued + Accrual(Store, now + 1)
           /\ failures' = failures + (IF r.round = "DepositBncFailure" THEN 1 ELSE 0)
           /\ failures' <= MaxFailures
           /\ ev' = Event("on_finalize", r, r.round)
           /\ recorded' = IF r.round = "Ok" THEN <<0, 0>> ELSE recorded
           /\ UNCHANGED mints

\* An operation other than on_finalize; mint_amount is the amount of a
\* mint recorder, 0 for the other operations
Call(op, r, mint_amount) ==
    /\ Running
    /\ Commit(r.s)
    /\ ev' = Event(op, r, "None")
    /\ failures' = failures + (IF r.res = "DepositBncFailure" THEN 1 ELSE 0)
    /\ failures' <= MaxFailures
    /\ mints' = mints + (IF op \in {"mint_bnc", "mint_bnc_by_weight"} /\ r.res = "Ok" THEN 1 ELSE 0)
    /\ recorded' =
          IF r.res # "Ok" THEN recorded
          ELSE IF op \in {"mint_bnc", "mint_bnc_by_weight"}
               THEN <<IF mint_amount > recorded[1] THEN mint_amount ELSE recorded[1],
                      recorded[2] + 1>>
          ELSE IF op \in {"issue_bnc", "issue_bnc_by_weight"} THEN <<0, 0>>
          ELSE recorded
    /\ UNCHANGED <<now, accrued>>

MintBnc(amounts, maxMints) ==
    \E minter \in Account, mint_amount \in amounts :
        /\ mints < maxMints
        /\ Call("mint_bnc", mint_bnc(Store, minter, mint_amount), mint_amount)

IssueBnc == Call("issue_bnc", issue_bnc(Store), 0)

InitVTokenScore(assets, scores) ==
    \E asset_id \in assets, score \in scores :
        Call("init_v_token_score", init_v_token_score(Store, asset_id, score), 0)

MintBncByWeight(assets, amounts, maxMints) ==
    \E minter \in Account, mint_amount \in amounts, asset_id \in assets :
        /\ mints < maxMints
        /\ Call("mint_bnc_by_weight",
                mint_bnc_by_weight(Store, minter, mint_amount, asset_id), mint_amount)

IssueBncByWeight == Call("issue_bnc_by_weight", issue_bnc_by_weight(Store), 0)

ImproveVTokenWeight(assets) ==
    \E asset_id \in assets, pledge_amount \in Pledges :
        /\ ScoreOf(Store, asset_id)[2] < MaxAdjust
        /\ Call("improve_v_token_weight",
                improve_v_token_weight(Store, asset_id, pledge_amount), 0)

WithdrawVTokenPledge(assets) ==
    \E asset_id \in assets, pledge_amount \in Pledges :
        Call("withdraw_v_token_pledge",
             withdraw_v_token_pledge(Store, asset_id, pledge_amount), 0)

\* The currency service opens an account (outside the pallet)
CreateAccount ==
    \E who \in Account \ DOMAIN FreeBalance :
        /\ Running
        /\ FreeBalance' = Put(FreeBalance, who, 0)
        /\ ev' = [op |-> "create_account", res |-> "Ok", round |-> "None", pays |-> <<>>]
        /\ UNCHANGED <<BncSum, BncPrice, BncMonitor, BncMint, VtokenWeightScore,
                       VtokenWeightMint, now, accrued, failures, mints, recorded>>

\* The whole pallet, with one asset
Next ==
    \/ Finalize(MaxBlock)
    \/ MintBnc(MintAmounts, MaxMints)
    \/ IssueBnc
    \/ InitVTokenScore({"x1"}, Scores)
    \/ MintBncByWeight({"x1"}, {1}, MaxMints)
    \/ IssueBncByWeight
    \/ ImproveVTokenWeight({"x1"})
    \/ WithdrawVTokenPledge({"x1"})
    \/ CreateAccount

Spec == Init /\ [][Next]_vars

\* The flat model alone, with wider prices and amounts
InitFlat == Genesis(FlatPrices)

NextFlat ==
    \/ Finalize(RoundBlocks)
    \/ MintBnc(FlatAmounts, RoundMints)
    \/ IssueBnc
    \/ CreateAccount

SpecFlat == InitFlat /\ [][NextFlat]_vars

\* The weighted model alone, with two assets and wider amounts; the
\* accounts exist from the start
InitWeighted ==
    \E p \in WeightedPrices :
        /\ BncSum = 0
        /\ BncPrice = <<0, p>>
        /\ BncMonitor = ZeroMonitor
        /\ BncMint = EmptyMap
        /\ VtokenWeightScore = EmptyMap
        /\ VtokenWeightMint = EmptyMap
        /\ FreeBalance = [a \in Account |-> 0]
        /\ now = 0
        /\ accrued = 0
        /\ failures = 0
        /\ mints = 0
        /\ recorded = <<0, 0>>
        /\ ev = [op |-> "genesis", res |-> "Ok", round |-> "None", pays |-> <<>>]

NextWeighted ==
    \/ Finalize(WeightedBlocks)
    \/ InitVTokenScore(Asset, WeightedScores)
    \/ MintBncByWeight(Asset, WeightedAmounts, RoundMints)
    \/ IssueBncByWeight

SpecWeighted == InitWeighted /\ [][NextWeighted]_vars

\* The sequence of blocks, with mints of both models
InitChain == Genesis(ChainPrices)

NextChain ==
    \/ Finalize(ChainBlocks)
    \/ MintBnc({0, 2}, ChainMints)
    \/ InitVTokenScore({"x1"}, {1})
    \/ MintBncByWeight({"x1"}, {1}, ChainMints)
    \/ CreateAccount

SpecChain == InitChain /\ [][NextChain]_vars

\* The weight adjuster alone, with wider pledges.  The event of a raise or
\* a withdrawal also records its arguments and the entry of the asset
\* before the call.
AdjustWeight(op, r, asset_id, pledge_amount) ==
    /\ Running
    /\ Commit(r.s)
    /\ ev' = [op |-> op, res |-> r.res, round |-> "None", pays |-> r.pays,
              asset_id |-> asset_id, pledge_amount |-> pledge_amount,
              existed |-> v_token_score_exists(Store, asset_id),
              before |-> ScoreOf(Store, asset_id)]
    /\ UNCHANGED <<now, accrued, failures, mints, recorded>>

Improve(assets, pledges) ==
    \E asset_id \in assets, pledge_amount \in pledges :
        AdjustWeight("improve_v_token_weight",
                     improve_v_token_weight(Store, asset_id, pledge_amount),
                     asset_id, pledge_amount)

Withdraw(assets, pledges) ==
    \E asset_id \in assets, pledge_amount \in pledges :
        AdjustWeight("withdraw_v_token_pledge",
                     withdraw_v_token_pledge(Store, asset_id, pledge_amount),
                     asset_id, pledge_amount)

InitPledge == Genesis(GenesisPrices)

NextPledge ==
    \/ InitVTokenScore({"x1"}, PledgeScores)
    \/ Improve({"x1"}, PledgeAmounts)
    \/ Withdraw({"x1"}, PledgeAmounts)

SpecPledge == InitPledge /\ [][NextPledge]_vars

\* Genesis with the accounts of a set open at balance 0
GenesisWith(prices, accounts) ==
    \E p \in prices :
        /\ BncSum = 0
        /\ BncPrice = <<0, p>>
        /\ BncMonitor = ZeroMonitor
        /\ BncMint = EmptyMap
        /\ VtokenWeightScore = EmptyMap
        /\ VtokenWeightMint = EmptyMap
        /\ FreeBalance = [a \in accounts |-> 0]
        /\ now = 0
        /\ accrued = 0
        /\ failures = 0
        /\ mints = 0
        /\ recorded = <<0, 0>>
        /\ ev = [op |-> "genesis", res |-> "Ok", round |-> "None", pays |-> <<>>]

\* The whole pallet with a halted and with a saturating emission; the
\* first account exists from the start, the second has no account
InitPool == GenesisWith(PoolPrices, {IterAccounts[1]})

NextPool ==
    \/ Finalize(MaxBlock)
    \/ MintBnc({1}, MaxMints)
    \/ IssueBnc
    \/ InitVTokenScore({"x1"}, {1})
    \/ MintBncByWeight({"x1"}, {1}, MaxMints)
    \/ IssueBncByWeight
    \/ ImproveVTokenWeight({"x1"})
    \/ WithdrawVTokenPledge({"x1"})

SpecPool == InitPool /\ [][NextPool]_vars

\* The mint recorders and the monitor, with enough mints for the
\* transaction count to saturate; the first account exists from the start,
\* the second has no account and a payout to it fails
InitMonitor == GenesisWith(GenesisPrices, {IterAccounts[1]})

NextMonitor ==
    \/ Finalize(MonitorBlocks)
    \/ MintBnc(MonitorAmounts, MonitorMints)
    \/ InitVTokenScore({"x1"}, {1})
    \/ MintBncByWeight({"x1"}, MonitorAmounts, MonitorMints)
    \/ IssueBnc
    \/ IssueBncByWeight

SpecMonitor == InitMonitor /\ [][NextMonitor]_vars

\* Every block is finalized in turn and every payout succeeds: all accounts
\* exist and the emission of the blocks fits a balance.  Mints are recorded
\* in the early blocks, so that MaxIssueBlockInterval + 1 finalizations
\* follow every mint.
MintsOpen == now + MaxIssueBlockInterval + 1 <= LiveBlocks

InitLive == GenesisWith(LivePrices, Account)

NextLive ==
    \/ Finalize(LiveBlocks)
    \/ InitVTokenScore({"x1"}, {1})
    \/ MintsOpen /\ MintBncByWeight({"x1"}, {1}, LiveMints)
    \/ MintsOpen /\ MintBnc({1}, LiveMints)
    \/ IssueBnc
    \/ IssueBncByWeight

\* The host moves to the next block: the steps of NextLive that change now
\* are those of Finalize, which is enabled whenever a block is left
NextBlock == Running /\ now < LiveBlocks /\ now' = now + 1

SpecLive == InitLive /\ [][NextLive]_vars /\ WF_now(NextBlock)

(***************************************************************************)
(* Properties                                                              *)
(***************************************************************************)

\* The sum of the balances of a set of accounts
RECURSIVE SumBalances(_, _)
SumBalances(free, accounts) ==
    IF accounts = {} THEN 0
    ELSE LET a == CHOOSE x \in accounts : TRUE
         IN  free[a] + SumBalances(free, accounts \ {a})

\* Every account opens with balance 0 and only payouts change a balance:
\* the sum of the balances is the total deposited to participants
TotalDeposited == SumBalances(FreeBalance, DOMAIN FreeBalance)

\* The sum of the amounts of a sequence of deposits
RECURSIVE SumPays(_)
SumPays(pays) == IF pays = <<>> THEN 0 ELSE pays[1][2] + SumPays(Tail(pays))

FlatRoundOk == ev.op = "issue_bnc" /\ ev.res = "Ok"

WeightedRoundOk ==
    \/ ev.op = "issue_bnc_by_weight" /\ ev.res = "Ok"
    \/ ev.op = "on_finalize" /\ ev.round = "Ok"

\* C1: the total deposited to participants never exceeds the total emission
\* accrued into BncSum by on_finalize, whatever the operations and also
\* when a round fails part-way and is retried.
C1_DepositedWithinAccrued == TotalDeposited <= accrued

\* C2: on_finalize always runs to completion; an error of the round it
\* invokes is only logged.
C2_FinalizeCompletes == ev.op = "on_finalize" => ev.res = "Ok"

\* C3: after a round that returns success, BncSum is 0, the credit map of
\* the round's model is empty and the monitor is ((0, 0), 0, 0).
C3_SuccessfulRoundResets ==
    /\ FlatRoundOk =>
          BncSum = 0 /\ DOMAIN BncMint = {} /\ BncMonitor = <<<<0, 0>>, 0, 0>>
    /\ WeightedRoundOk =>
          BncSum = 0 /\ DOMAIN VtokenWeightMint = {} /\ BncMonitor = <<<<0, 0>>, 0, 0>>

\* C3 witness: a block's finalization ran a weighted round that paid its
\* participants and succeeded
C3_Witness == ev.op = "on_finalize" /\ ev.round = "Ok" /\ ev.pays # <<>>

\* The storage after the step
StoreNext ==
    [BncSum |-> BncSum', BncPrice |-> BncPrice', BncMonitor |-> BncMonitor',
     BncMint |-> BncMint', VtokenWeightScore |-> VtokenWeightScore',
     VtokenWeightMint |-> VtokenWeightMint', FreeBalance |-> FreeBalance']

\* The entries of a payout list with a non-zero reward
NonZero(todo) == SelectSeq(todo, LAMBDA e : e[2] # 0)

\* The balances after a sequence of deposits
RECURSIVE Credited(_, _)
Credited(free, pays) ==
    IF pays = <<>> THEN free
    ELSE Credited([free EXCEPT ![pays[1][1]] = @ + pays[1][2]], Tail(pays))

\* A round ended in DepositBncFailure in this step
RoundFailed(e) == e.res = "DepositBncFailure" \/ e.round = "DepositBncFailure"

\* C7: a failing payout ends the round at once with DepositBncFailure: the
\* deposits made are exactly those before the failing one in iteration
\* order, they stay in the balances, and BncSum, the credit maps, the
\* weights and the monitor are as they were before the round.
C7_Step ==
    RoundFailed(ev') =>
        LET after == StoreNext
            todo == NonZero(IF ev'.op = "issue_bnc" THEN FlatTodo(after)
                            ELSE WeightedTodo(AssetsOf(after.VtokenWeightScore), after,
                                              after.BncSum,
                                              TotalScore(after.VtokenWeightScore)))
            paid == Len(ev'.pays)
        IN  /\ paid < Len(todo)
            /\ \A i \in 1..paid : ev'.pays[i] = todo[i]
            /\ LET who == todo[paid + 1][1]
                   reward == todo[paid + 1][2]
               IN  ~(who \in DOMAIN FreeBalance' /\ FreeBalance'[who] + reward <= BalanceMax)
            /\ FreeBalance' = Credited(FreeBalance, ev'.pays)
            /\ BncMint' = BncMint
            /\ VtokenWeightMint' = VtokenWeightMint
            /\ VtokenWeightScore' = VtokenWeightScore
            /\ BncSum' # 0
            /\ ev'.op # "on_finalize" =>
                  BncSum' = BncSum /\ BncMonitor' = BncMonitor /\ BncPrice' = BncPrice
            /\ ev'.op = "on_finalize" =>
                  /\ BncSum' = Min(BncSum + BncPrice'[2], BalanceMax)
                  /\ BncMonitor'[2] = BncMonitor[2]
                  /\ BncMonitor'[3] = BncMonitor[3]

C7_FailedRoundKeepsState == [][C7_Step]_vars

\* C7 witness: a round failed after it had paid a participant
C7_Witness == RoundFailed(ev) /\ ev.pays # <<>>

\* The number of entries of a sequence equal to e
Count(e, q) == Cardinality({i \in 1..Len(q) : q[i] = e})

\* Two sequences hold the same entries, each as many times
SameEntries(p, q) ==
    /\ Len(p) = Len(q)
    /\ \A i \in 1..Len(p) : Count(p[i], p) = Count(p[i], q)

\* The arithmetic sum of the values of a map over a set of keys
RECURSIVE SumOver(_, _)
SumOver(m, keys) ==
    IF keys = {} THEN 0
    ELSE LET k == CHOOSE x \in keys : TRUE
         IN  m[k] + SumOver(m, keys \ {k})

\* A flat round succeeded in this step
FlatRoundStep == ev'.op = "issue_bnc" /\ ev'.res = "Ok"

\* C4: in a flat round that succeeds, the payouts sum to at most the pool
\* before the round, and the pool less the payouts is below the number of
\* participants holding a credit entry.
C4_Step ==
    FlatRoundStep =>
        /\ SumPays(ev'.pays) <= BncSum
        /\ BncSum - SumPays(ev'.pays) < Cardinality(DOMAIN BncMint)

C4_FlatRoundingBound == [][C4_Step]_vars

\* C5: in a flat round that succeeds with pool P and total credit S, every
\* participant with credit c is deposited exactly floor(c * P / S), and
\* nothing is deposited where that is 0.
C5_Step ==
    FlatRoundStep =>
        LET P == BncSum
            S == SumOver(BncMint, DOMAIN BncMint)
            order == Minters(BncMint)
            expected == NonZero([i \in 1..Len(order) |->
                                    <<order[i], (BncMint[order[i]] * P) \div S>>])
        IN  SameEntries(ev'.pays, expected)

C5_FlatPayoutIsFloor == [][C5_Step]_vars

\* A weighted round succeeded in this step
WeightedRoundStep ==
    \/ ev'.op = "issue_bnc_by_weight" /\ ev'.res = "Ok"
    \/ ev'.op = "on_finalize" /\ ev'.round = "Ok"

\* The pool a round of this step started from: on_finalize accrues the
\* price of the block before it runs the round
PoolBeforeRound ==
    IF ev'.op = "on_finalize" THEN Min(BncSum + BncPrice'[2], BalanceMax) ELSE BncSum

\* The payouts of the weighted model in exact arithmetic: the share of an
\* asset is floor(w * P / W), the payout of a credit c under an asset with
\* total credit p is floor(c * share / p)
RECURSIVE ExactWeightedTodo(_, _, _)
ExactWeightedTodo(assets, P, W) ==
    IF assets = <<>> THEN <<>>
    ELSE
    LET x == assets[1]
        w == VtokenWeightScore[x][1] + VtokenWeightScore[x][2]
        share == (w * P) \div W
        order == PrefixMinters(VtokenWeightMint, x)
        p == SumOver(VtokenWeightMint, {<<x, a>> : a \in {order[i] : i \in 1..Len(order)}})
        mine == IF p = 0 THEN <<>>
                ELSE [i \in 1..Len(order) |->
                        <<order[i], (VtokenWeightMint[<<x, order[i]>>] * share) \div p>>]
    IN  mine \o ExactWeightedTodo(Tail(assets), P, W)

\* C6: in a weighted round that succeeds with pool P and total weight
\* W # 0, the share of an asset of weight w is floor(w * P / W) and a
\* participant with credit c under an asset with total credit p # 0 is
\* deposited exactly floor(c * share / p), zero payouts being skipped.
C6_Step ==
    LET assets == AssetsOf(VtokenWeightScore)
        W == SumOver([x \in DOMAIN VtokenWeightScore |->
                        VtokenWeightScore[x][1] + VtokenWeightScore[x][2]],
                     DOMAIN VtokenWeightScore)
    IN  WeightedRoundStep /\ W # 0 =>
            SameEntries(ev'.pays, NonZero(ExactWeightedTodo(assets, PoolBeforeRound, W)))

C6_WeightedPayoutIsFloor == [][C6_Step]_vars

\* C8: a failing precondition returns its error and leaves the whole
\* storage and the balances as they were: a weighted mint on an asset
\* without a score, a raise or a withdrawal with a pledge of at most
\* PledgeBaseAmount, either round with BncSum = 0, the flat round with a
\* total credit of 0.
Failed(error) == [res |-> error, s |-> Store, pays |-> <<>>]

C8_PreconditionFailuresChangeNothing ==
    /\ \A asset_id \in Asset \ DOMAIN VtokenWeightScore, minter \in Account,
          mint_amount \in 0..2 :
          mint_bnc_by_weight(Store, minter, mint_amount, asset_id)
             = Failed("AssetScoreNotExist")
    /\ \A asset_id \in Asset, pledge_amount \in 0..PledgeBaseAmount :
          /\ improve_v_token_weight(Store, asset_id, pledge_amount)
                = Failed("PledgeAmountNotEnough")
          /\ withdraw_v_token_pledge(Store, asset_id, pledge_amount)
                = Failed("PledgeAmountNotEnough")
    /\ BncSum = 0 =>
          /\ issue_bnc(Store) = Failed("BncAmountNotExist")
          /\ issue_bnc_by_weight(Store) = Failed("BncAmountNotExist")
    /\ BncSum # 0 /\ (\A a \in DOMAIN BncMint : BncMint[a] = 0) =>
          issue_bnc(Store) = Failed("MinterNotExist")
    /\ ev.res \in {"AssetScoreNotExist", "PledgeAmountNotEnough",
                   "BncAmountNotExist", "MinterNotExist"} => ev.pays = <<>>

\* C8 witness: a raise with a pledge equal to PledgeBaseAmount was refused
\* while the asset had a score and the pool was not empty
C8_Witness ==
    /\ ev.op = "improve_v_token_weight"
    /\ ev.res = "PledgeAmountNotEnough"
    /\ VtokenWeightScore # EmptyMap
    /\ BncSum # 0

\* C9 as stated: on_finalize halves the price and records the block exactly
\* when current block - recorded block = PriceHalfBlockInterval; the price
\* never increases; at price 0 it stays 0 and BncSum no longer grows.
C9_StepAsStated ==
    /\ ev'.op = "on_finalize" =>
          IF now' - BncPrice[1] = PriceHalfBlockInterval
          THEN BncPrice' = <<now', BncPrice[2] \div 2>>
          ELSE BncPrice' = BncPrice
    /\ BncPrice'[2] <= BncPrice[2]
    /\ BncPrice[2] = 0 => BncPrice'[2] = 0 /\ BncSum' <= BncSum

C9_HalvingAsStated == [][C9_StepAsStated]_vars

\* C9 amended: while the stored price is not 0, on_finalize halves it and
\* records the block exactly when current block - recorded block =
\* PriceHalfBlockInterval; once the price is 0 the price point never
\* changes again; the price never increases and at price 0 BncSum no
\* longer grows.
C9_Step ==
    /\ ev'.op = "on_finalize" =>
          IF BncPrice[2] # 0 /\ now' - BncPrice[1] = PriceHalfBlockInterval
          THEN BncPrice' = <<now', BncPrice[2] \div 2>>
          ELSE BncPrice' = BncPrice
    /\ BncPrice'[2] <= BncPrice[2]
    /\ BncPrice[2] = 0 => BncPrice' = BncPrice /\ BncSum' <= BncSum

C9_Halving == [][C9_Step]_vars

\* C9 witness: the price was halved down to 0 and a later block was
\* finalized at price 0
C9_Witness ==
    /\ ev.op = "on_finalize"
    /\ BncPrice[2] = 0
    /\ now - BncPrice[1] >= PriceHalfBlockInterval

\* C10: on_finalize with a non-zero stored price invokes the weighted round
\* exactly when (the interval since the monitor's block is
\* MaxIssueBlockInterval and BncSum after the accrual is not 0 and the
\* largest mint is not 0) or the transaction count is at least MaxTxAmount.
C10_Step ==
    ev'.op = "on_finalize" /\ BncPrice[2] # 0 =>
        LET pool == Min(BncSum + BncPrice'[2], BalanceMax)
            due == /\ now' - BncMonitor[1][1] = MaxIssueBlockInterval
                   /\ pool # 0
                   /\ BncMonitor[2] # 0
        IN  (ev'.round # "None") <=> (due \/ BncMonitor[3] >= MaxTxAmount)

C10_RoundInvokedIffDue == [][C10_Step]_vars

\* C10 witness: the round was invoked at block 1, where the interval clause
\* is false and only the transaction count can have asked for it
C10_Witness == ev.op = "on_finalize" /\ ev.round # "None" /\ now = 1

\* The delta of a pledge, floor(log2(pledge - PledgeBaseAmount))
Delta(pledge_amount) == checked_int_log2(pledge_amount - PledgeBaseAmount)

\* This step is a withdrawal that follows at once a raise of the same
\* asset with the same pledge, both accepted
RaiseThenLower ==
    /\ ev.op = "improve_v_token_weight" /\ ev.res = "Ok"
    /\ ev'.op = "withdraw_v_token_pledge" /\ ev'.res = "Ok"
    /\ ev'.asset_id = ev.asset_id
    /\ ev'.pledge_amount = ev.pledge_amount

\* C11: for an asset with a score entry and a pledge above PledgeBaseAmount,
\* a raise followed at once by a withdrawal with the same pledge leaves the
\* adjust score at its value before the raise and the base score unchanged,
\* for every starting adjust score, unless the addition of the raise
\* saturated.
C11_Step ==
    RaiseThenLower /\ ev.existed
        /\ ev.before[2] + Delta(ev.pledge_amount) <= BalanceMax =>
        VtokenWeightScore'[ev.asset_id] = ev.before

C11_RaiseThenLowerRestores == [][C11_Step]_vars

\* C11 witness: a withdrawal has followed a raise of delta 3 that started
\* from a non-zero adjust score, on a registered asset
C11_Witness ==
    /\ ev.op = "withdraw_v_token_pledge" /\ ev.res = "Ok" /\ ev.existed
    /\ ev.pledge_amount = 9
    /\ ev.before[2] > 3
    /\ VtokenWeightScore[ev.asset_id] = <<2, ev.before[2] - 3>>
    /\ ev.before[2] - 3 \notin {0, 1, 8}

\* C12: in every reachable state the monitor's largest single mint is the
\* largest amount among the mints recorded with success (flat and weighted)
\* since the last round that succeeded, 0 if there is none, and its
\* transaction count is their number, saturating; a weighted mint refused
\* with AssetScoreNotExist is not counted and on_finalize without a
\* successful round changes neither.
C12_MonitorCountsMints ==
    /\ BncMonitor[2] = recorded[1]
    /\ BncMonitor[3] = Min(recorded[2], U32Max)

\* C12 witness: more mints than the counter holds were recorded since the
\* last round that succeeded, and a block was then finalized whose round
\* failed
C12_Witness ==
    /\ recorded[2] > U32Max
    /\ recorded[1] = 1
    /\ BncSum # 0
    /\ ev.op = "on_finalize" /\ ev.round \notin {"None", "Ok"}

\* C13: once an asset has a score entry, no later operation changes its
\* base score, and its adjust score changes only in a raise, by
\* + floor(log2(pledge - PledgeBaseAmount)), or in a withdrawal, by the
\* saturating subtraction of that delta; registering the asset again,
\* mints, on_finalize and the rounds alter neither.
C13_Step ==
    \A x \in DOMAIN VtokenWeightScore :
        /\ x \in DOMAIN VtokenWeightScore'
        /\ VtokenWeightScore'[x][1] = VtokenWeightScore[x][1]
        /\ \/ VtokenWeightScore'[x][2] = VtokenWeightScore[x][2]
           \/ /\ ev'.op = "improve_v_token_weight"
              /\ \E pledge_amount \in Pledges :
                    /\ pledge_amount > PledgeBaseAmount
                    /\ VtokenWeightScore'[x][2] =
                          Min(VtokenWeightScore[x][2] + Delta(pledge_amount), BalanceMax)
           \/ /\ ev'.op = "withdraw_v_token_pledge"
              /\ \E pledge_amount \in Pledges :
                    /\ pledge_amount > PledgeBaseAmount
                    /\ VtokenWeightScore'[x][2] =
                          IF VtokenWeightScore[x][2] > Delta(pledge_amount)
                          THEN VtokenWeightScore[x][2] - Delta(pledge_amount) ELSE 0

C13_WeightsChangeOnlyByPledges == [][C13_Step]_vars

\* C14: on_finalize called while the stored price is 0 changes nothing:
\* BncSum, the price point, the monitor, both credit maps, the weights and
\* all balances are as before and no round is invoked, whatever the
\* transaction count, the largest mint and the block interval.
C14_Step ==
    ev'.op = "on_finalize" /\ BncPrice[2] = 0 =>
        /\ StoreNext = Store
        /\ ev'.res = "Ok"
        /\ ev'.round = "None"
        /\ ev'.pays = <<>>

C14_FinalizeAtPriceZero == [][C14_Step]_vars

\* C14 witness: a block was finalized at a price that was 0 before it,
\* while the pool was not empty and the issue condition held
C14_Witness ==
    /\ ev.op = "on_finalize"
    /\ BncPrice[2] = 0
    /\ BncPrice[1] < now
    /\ BncSum # 0
    /\ IssueCondition(Store, now)
    /\ now - BncMonitor[1][1] = MaxIssueBlockInterval

\* A round, flat or weighted, returned success in this step
RoundSucceeded == FlatRoundStep \/ WeightedRoundStep

\* C15: BncSum changes in exactly two ways: on_finalize with a non-zero
\* stored price adds, saturating, the current price, which on a halving
\* block is the price after the halving; a round that returns success sets
\* it to 0.  The mint recorders, the weight operations, init_v_token_score,
\* failed rounds and on_finalize at price 0 leave it unchanged.
C15_Step ==
    LET price == IF now' - BncPrice[1] = PriceHalfBlockInterval
                 THEN BncPrice[2] \div 2 ELSE BncPrice[2]
    IN  BncSum' = IF RoundSucceeded THEN 0
                  ELSE IF ev'.op = "on_finalize" /\ BncPrice[2] # 0
                       THEN Min(BncSum + price, BalanceMax)
                  ELSE BncSum

C15_PoolChanges == [][C15_Step]_vars

\* C15 witness: the accrual of a halving block saturated BncSum, the round
\* the block invoked failed, and the pool stayed
C15_Witness ==
    /\ ev.op = "on_finalize" /\ ev.round = "DepositBncFailure"
    /\ BncPrice[1] = now /\ now > 0
    /\ BncSum = BalanceMax

\* C16: after on_finalize(n) with a non-zero stored price in which no round
\* succeeded (none invoked, or the one invoked returned an error): if the
\* largest single mint was above the monitor's recorded amount on entry,
\* the monitor's block becomes n and its recorded amount the largest single
\* mint, otherwise the monitor is unchanged; the largest single mint and
\* the transaction count are unchanged in both cases.  When the round
\* succeeded the update is not applied and the monitor is ((0, 0), 0, 0).
C16_Step ==
    ev'.op = "on_finalize" /\ ev'.res = "Ok" /\ BncPrice[2] # 0 =>
        IF ev'.round = "Ok"
        THEN BncMonitor' = <<<<0, 0>>, 0, 0>>
        ELSE IF BncMonitor[2] > BncMonitor[1][2]
             THEN BncMonitor' = <<<<now', BncMonitor[2]>>, BncMonitor[2], BncMonitor[3]>>
             ELSE BncMonitor' = BncMonitor

C16_ClosingUpdate == [][C16_Step]_vars

\* C16 witness: the round invoked by a block after the first failed and the
\* closing update recorded the block and the largest single mint
C16_Witness ==
    /\ ev.op = "on_finalize" /\ ev.round = "DepositBncFailure"
    /\ now > 1
    /\ BncMonitor[1] = <<now, BncMonitor[2]>>
    /\ BncMonitor[2] > 0

\* A weighted round was invoked in this step, whatever its outcome
WeightedRoundInvoked ==
    \/ ev'.op = "issue_bnc_by_weight"
    \/ ev'.op = "on_finalize" /\ ev'.round # "None"

\* The total credit under an asset, and whether any asset has credit
HasCredit(x) ==
    \E a \in Account : <<x, a>> \in DOMAIN VtokenWeightMint /\ VtokenWeightMint[<<x, a>>] # 0

\* C17: in a weighted round an asset whose total credit is 0 causes no
\* payout and the round still succeeds and resets BncSum to 0; the
\* payouts of a successful weighted round sum to at most the pool before
\* the round; a round with a non-zero pool in which no asset has credit,
\* or no asset is registered, succeeds and pays nothing.
C17_Step ==
    /\ WeightedRoundStep =>
          /\ \A i \in 1..Len(ev'.pays) :
                \E x \in DOMAIN VtokenWeightScore :
                    /\ HasCredit(x)
                    /\ <<x, ev'.pays[i][1]>> \in DOMAIN VtokenWeightMint
          /\ SumPays(ev'.pays) <= PoolBeforeRound
          /\ BncSum' = 0
    /\ /\ WeightedRoundInvoked
       /\ PoolBeforeRound # 0
       /\ \A x \in DOMAIN VtokenWeightScore : ~HasCredit(x)
       => /\ (ev'.res = "Ok" /\ ev'.round \in {"None", "Ok"})
          /\ ev'.pays = <<>>
          /\ BncSum' = 0

C17_CreditlessAssetsPayNothing == [][C17_Step]_vars

\* C18: on_finalize and the weighted round never modify BncMint or
\* VtokenWeightScore and pay nobody on the basis of flat credit (their
\* deposits are those they make with BncMint empty); the flat round never
\* modifies VtokenWeightMint or VtokenWeightScore.  The weights are the
\* same before and after any round, successful or failed.
C18_Step ==
    LET noFlat == [Store EXCEPT !.BncMint = EmptyMap]
    IN  /\ ev'.op = "on_finalize" =>
              /\ BncMint' = BncMint
              /\ VtokenWeightScore' = VtokenWeightScore
              /\ ev'.pays = on_finalize(noFlat, now').pays
        /\ ev'.op = "issue_bnc_by_weight" =>
              /\ BncMint' = BncMint
              /\ VtokenWeightScore' = VtokenWeightScore
              /\ ev'.pays = issue_bnc_by_weight(noFlat).pays
        /\ ev'.op = "issue_bnc" =>
              /\ VtokenWeightMint' = VtokenWeightMint
              /\ VtokenWeightScore' = VtokenWeightScore

C18_RoundsKeepTheOtherModel == [][C18_Step]_vars

\* C18 witness: the round of a block paid its weighted participants and
\* succeeded while another account held flat credit, which stays unpaid
\* and recorded
C18_Witness ==
    /\ ev.op = "on_finalize" /\ ev.round = "Ok" /\ ev.pays # <<>>
    /\ \E a \in DOMAIN BncMint :
          /\ BncMint[a] > 0
          /\ \A i \in 1..Len(ev.pays) : ev.pays[i][1] # a

\* C18 witness of the flat round: it succeeded and paid while weighted
\* credit was recorded, which stays
C18_FlatWitness ==
    /\ ev.op = "issue_bnc" /\ ev.res = "Ok" /\ ev.pays # <<>>
    /\ VtokenWeightMint # EmptyMap

\* The last operation was a raise or a withdrawal with a pledge above
\* PledgeBaseAmount on an asset that had no score entry
AdjustedWithoutEntry ==
    /\ ev.op \in {"improve_v_token_weight", "withdraw_v_token_pledge"}
    /\ ev.pledge_amount > PledgeBaseAmount
    /\ ~ev.existed

\* C20: a raise or a withdrawal with a pledge above PledgeBaseAmount on an
\* asset without a score entry does not fail: it creates the entry
\* (0, floor(log2(pledge - PledgeBaseAmount))) for a raise, (0, 0) for a
\* withdrawal, after which v_token_score_exists is true for the asset and
\* mint_bnc_by_weight on it succeeds.
C20_AdjustCreatesEntry ==
    AdjustedWithoutEntry =>
        /\ ev.res = "Ok"
        /\ ev.asset_id \in DOMAIN VtokenWeightScore
        /\ VtokenWeightScore[ev.asset_id] =
              IF ev.op = "improve_v_token_weight"
              THEN <<0, Delta(ev.pledge_amount)>> ELSE <<0, 0>>
        /\ v_token_score_exists(Store, ev.asset_id)
        /\ \A minter \in Account, mint_amount \in MonitorAmounts :
              LET r == mint_bnc_by_weight(Store, minter, mint_amount, ev.asset_id)
              IN  /\ r.res = "Ok"
                  /\ r.s.VtokenWeightMint[<<ev.asset_id, minter>>] = mint_amount

\* C20 witness: a raise of delta 3 on an asset without an entry
C20_Witness ==
    /\ AdjustedWithoutEntry
    /\ ev.op = "improve_v_token_weight"
    /\ ev.pledge_amount = 9
    /\ VtokenWeightScore = [x \in {ev.asset_id} |-> <<0, 3>>]

\* C20 witness of the withdrawal: it created the entry (0, 0)
C20_WithdrawWitness ==
    /\ AdjustedWithoutEntry
    /\ ev.op = "withdraw_v_token_pledge"
    /\ VtokenWeightScore = [x \in {ev.asset_id} |-> <<0, 0>>]

\* A positive credit of the account is recorded under an asset of positive
\* weight
Pending(x, a) ==
    /\ <<x, a>> \in DOMAIN VtokenWeightMint
    /\ VtokenWeightMint[<<x, a>>] > 0
    /\ x \in DOMAIN VtokenWeightScore
    /\ VtokenWeightScore[x][1] + VtokenWeightScore[x][2] > 0

\* C19: with on_finalize invoked at every consecutive block and every
\* payout succeeding, every VtokenWeightMint entry recorded with a positive
\* amount under an asset of positive weight is eventually removed by a
\* weighted round that succeeds (only such a round removes entries).
C19_CreditEventuallyDistributed ==
    \A x \in Asset, a \in Account :
        Pending(x, a) ~> (<<x, a>> \notin DOMAIN VtokenWeightMint)

====
